---- MODULE Spec2Model ----
(***************************************************************************)
(* Model of SecurityAdvisor.process_query and                              *)
(* SecurityAdvisor.generate_response (src/app.py).                         *)
(*                                                                         *)
(* Python strings are modelled as sequences of one-character strings, so   *)
(* that strip(), lower(), startswith(), endswith() and the regular         *)
(* expression of process_query are computed character by character.        *)
(***************************************************************************)
EXTENDS Integers, Sequences, FiniteSets, TLC

\* ------------------------------------------------------------------------
\* Bounds of the model
\* ------------------------------------------------------------------------
\* largest number of blanks put in front of / newlines put behind a raw query
MaxPad == 1

\* ------------------------------------------------------------------------
\* Characters and Python's character classes
\* ------------------------------------------------------------------------
UpperChars == <<"A", "B", "C", "D", "E", "F", "G", "H", "I", "J", "K", "L", "M", "N", "O", "P", "Q", "R", "S", "T", "U", "V", "W", "X", "Y", "Z">>
LowerChars == <<"a", "b", "c", "d", "e", "f", "g", "h", "i", "j", "k", "l", "m", "n", "o", "p", "q", "r", "s", "t", "u", "v", "w", "x", "y", "z">>
DigitChars == <<"0", "1", "2", "3", "4", "5", "6", "7", "8", "9">>

Range(f) == {f[i] : i \in DOMAIN f}

\* str.isspace(): the whitespace str.strip() removes and \s matches
IsSpace(c) == c \in {" ", "\n", "\t"}
\* \d
IsDigit(c) == c \in Range(DigitChars)
\* \w
IsWord(c) == c \in Range(UpperChars) \cup Range(LowerChars) \cup Range(DigitChars) \cup {"_"}

\* membership of a character in a class of the pattern of process_query
InClass(c, cls) ==
    CASE cls = "notcomma"   -> c # ","
      [] cls = "comma"      -> c = ","
      [] cls = "space"      -> IsSpace(c)
      [] cls = "digit"      -> IsDigit(c)
      [] cls = "word"       -> IsWord(c)
      [] cls = "digitcolon" -> IsDigit(c) \/ c = ":"
      [] cls = "newline"    -> c = "\n"
      [] cls = "any"        -> TRUE

\* ------------------------------------------------------------------------
\* Python string methods
\* ------------------------------------------------------------------------
\* str.lower() on one character
LowerChar(c) ==
    IF c \in Range(UpperChars)
    THEN LowerChars[CHOOSE i \in DOMAIN UpperChars : UpperChars[i] = c]
    ELSE c

\* str.lower()
Lower(s) == [i \in DOMAIN s |-> LowerChar(s[i])]

\* str.strip(): drop leading and trailing whitespace
Strip(s) ==
    LET keep == {i \in DOMAIN s : ~IsSpace(s[i])}
    IN IF keep = {} THEN <<>>
       ELSE LET lo == CHOOSE i \in keep : \A j \in keep : i <= j
                hi == CHOOSE i \in keep : \A j \in keep : j <= i
            IN SubSeq(s, lo, hi)

\* str.startswith(prefix)
StartsWith(s, prefix) ==
    /\ Len(prefix) <= Len(s)
    /\ SubSeq(s, 1, Len(prefix)) = prefix

\* str.endswith(suffix)
EndsWith(s, suffix) ==
    /\ Len(suffix) <= Len(s)
    /\ SubSeq(s, Len(s) - Len(suffix) + 1, Len(s)) = suffix

\* ------------------------------------------------------------------------
\* process_query: the header pattern and re.match
\* ------------------------------------------------------------------------
\* Python's None (a value no string equals)
None == <<"None">>

Item(cls, min, many) == [cls |-> cls, min |-> min, many |-> many]

\* r'^([^,]+),\s*(?:[^,]+,\s*\d+\s+\w+\s+\d+\s+[\d:]+\s+\w+)\s*\n(.+)$'
\* one entry per quantified character class, in the pattern's order
Pattern == <<
    Item("notcomma",   1, TRUE),    \*  1  ([^,]+)      group 1
    Item("comma",      1, FALSE),   \*  2  ,
    Item("space",      0, TRUE),    \*  3  \s*
    Item("notcomma",   1, TRUE),    \*  4  [^,]+
    Item("comma",      1, FALSE),   \*  5  ,
    Item("space",      0, TRUE),    \*  6  \s*
    Item("digit",      1, TRUE),    \*  7  \d+
    Item("space",      1, TRUE),    \*  8  \s+
    Item("word",       1, TRUE),    \*  9  \w+
    Item("space",      1, TRUE),    \* 10  \s+
    Item("digit",      1, TRUE),    \* 11  \d+
    Item("space",      1, TRUE),    \* 12  \s+
    Item("digitcolon", 1, TRUE),    \* 13  [\d:]+
    Item("space",      1, TRUE),    \* 14  \s+
    Item("word",       1, TRUE),    \* 15  \w+
    Item("space",      0, TRUE),    \* 16  \s*
    Item("newline",    1, FALSE),   \* 17  \n
    Item("any",        1, TRUE) >>  \* 18  (.+)         group 2, re.DOTALL

NameItem == 1
NewlineItem == 17
ContentItem == 18

\* number of consecutive characters of class cls starting at index pos
RECURSIVE RunLength(_, _, _)
RunLength(s, pos, cls) ==
    IF pos > Len(s) \/ ~InClass(s[pos], cls) THEN 0
    ELSE 1 + RunLength(s, pos + 1, cls)

\* '$' without re.MULTILINE: the end of the string, or just before a final newline
AtEnd(s, pos) ==
    \/ pos = Len(s) + 1
    \/ pos = Len(s) /\ s[pos] = "\n"

NoMatch == [ok |-> FALSE, ends |-> <<>>]

\* The preferred continuation among the run lengths tried: a greedy quantifier
\* takes the longest run after which the rest of the pattern still matches.
\* rest[k] is the match of the remaining items after a run of k characters.
Greedy(rest, pos) ==
    LET oks == {k \in DOMAIN rest : rest[k].ok}
    IN IF oks = {} THEN NoMatch
       ELSE LET k == CHOOSE x \in oks : \A y \in oks : y <= x
            IN [ok |-> TRUE, ends |-> <<pos + k>> \o rest[k].ends]

\* The backtracking matcher: items i.. of Pattern against s from index pos.
\* ends[j] is the index after the j-th remaining item.
RECURSIVE MatchFrom(_, _, _)
MatchFrom(s, i, pos) ==
    IF i > Len(Pattern) THEN [ok |-> AtEnd(s, pos), ends |-> <<>>]
    ELSE LET it  == Pattern[i]
             run == RunLength(s, pos, it.cls)
             hi  == IF it.many \/ run = 0 THEN run ELSE 1
         IN Greedy([k \in it.min .. hi |-> MatchFrom(s, i + 1, pos + k)], pos)

\* re.match(pattern, s, re.DOTALL)
ReMatch(s) == MatchFrom(s, 1, 1)

\* process_query returning group 2 as matched, without content.strip()
process_query_RawContent(query) ==
    LET s == Strip(query)
        m == ReMatch(s)
    IN IF m.ok
       THEN [name    |-> Strip(SubSeq(s, 1, m.ends[NameItem] - 1)),
             content |-> SubSeq(s, m.ends[NewlineItem], m.ends[ContentItem] - 1)]
       ELSE [name |-> None, content |-> s]

\* process_query(query): (name, content)
process_query(query) ==
    LET s == Strip(query)
        m == ReMatch(s)
    IN IF m.ok
       THEN [name    |-> Strip(SubSeq(s, 1, m.ends[NameItem] - 1)),
             content |-> Strip(SubSeq(s, m.ends[NewlineItem], m.ends[ContentItem] - 1))]
       ELSE [name |-> None, content |-> s]

\* ------------------------------------------------------------------------
\* generate_response: the pure steps
\* ------------------------------------------------------------------------
\* `if name` / `if not cleaned_query`: None and the empty string are falsy
Truthy(v) == v # None /\ v # <<>>

\* greeting = f"Hey {name}," if name else "Hey,"
Greeting(name) ==
    IF Truthy(name) THEN <<"H", "e", "y", " ">> \o name \o <<",">> ELSE <<"H", "e", "y", ",">>

\* the suffixes tested by the acknowledgment check
AckTokens == {<<"t", "h", "a", "n", "k">>, <<"o", "k">>, <<"g", "o", "t", " ", "i", "t">>}

\* not cleaned_query or cleaned_query.lower().endswith(('thank', 'ok', 'got it'))
IsAcknowledgment(cleaned) ==
    \/ ~Truthy(cleaned)
    \/ \E tok \in AckTokens : EndsWith(Lower(cleaned), tok)

AckText == <<"M", "e", "s", "s", "a", "g", "e", " ", "r", "e", "c", "e", "i", "v", "e", "d", ".", " ", "T", "h", "a", "n", "k", " ", "y", "o", "u", "!", " ", "G", "r", "a", "d", "i", "e", "n", "t", " ", "C", "y", "b", "e", "r", " ", "T", "e", "a", "m", "!">>

\* the canned acknowledgment without the greeting in front
AckResponse_NoGreeting(greeting) == AckText

\* f"{greeting}\n\nMessage received. Thank you! Gradient Cyber Team!"
AckResponse(greeting) == greeting \o <<"\n", "\n">> \o AckText

\* "Error generating response. Please try again."
Fallback == <<"E", "r", "r", "o", "r", " ", "g", "e", "n", "e", "r", "a", "t", "i", "n", "g", " ", "r", "e", "s", "p", "o", "n", "s", "e", ".", " ", "P", "l", "e", "a", "s", "e", " ", "t", "r", "y", " ", "a", "g", "a", "i", "n", ".">>

\* the greeting is prepended only when the text opens with no "Hey" at all
EnsureGreeting_KeepsAnyHey(response, greeting) ==
    IF ~StartsWith(response, <<"H", "e", "y">>)
    THEN Strip(greeting \o <<"\n", "\n">> \o response)
    ELSE Strip(response)

\* the greeting is prepended without the startswith test
EnsureGreeting_AlwaysPrepends(response, greeting) ==
    Strip(greeting \o <<"\n", "\n">> \o response)

\* if not response.startswith(greeting): response = f"{greeting}\n\n{response}"
\* return response.strip()
EnsureGreeting(response, greeting) ==
    IF ~StartsWith(response, greeting)
    THEN Strip(greeting \o <<"\n", "\n">> \o response)
    ELSE Strip(response)

\* ------------------------------------------------------------------------
\* The prompt templates.  The system template is an f-string into which the
\* greeting is substituted BEFORE from_template parses it as a format string;
\* the rest of that text holds no brace.
\* ------------------------------------------------------------------------
SystemTemplate(greeting) ==
    <<"A", "l", "w", "a", "y", "s", " ", "s", "t", "a", "r", "t", " ", "w", "i", "t", "h", " ", "\"">> \o greeting \o <<"\"", " ", "a", "n", "d", " ", "c", "h", "o", "o", "s", "e", " ", "t", "h", "e", " ", "a", "p", "p", "r", "o", "p", "r", "i", "a", "t", "e", " ", "c", "l", "o", "s", "i", "n", "g", ".", ".", ".">>

HumanTemplate == <<"S", "i", "t", "r", "e", "p", ":", " ", "{", "s", "i", "t", "r", "e", "p", "}", "\n", "Q", "u", "e", "r", "y", ":", " ", "{", "q", "u", "e", "r", "y", "}">>

ParseError == {<<"ValueError">>}

\* index of the "}" closing the replacement field opened just before index pos
\* (depth counts the braces nested in the field), 0 when the field never closes
RECURSIVE FieldEnd(_, _, _)
FieldEnd(t, pos, depth) ==
    IF pos > Len(t) THEN 0
    ELSE IF t[pos] = "{" THEN FieldEnd(t, pos + 1, depth + 1)
    ELSE IF t[pos] = "}" THEN IF depth = 1 THEN pos ELSE FieldEnd(t, pos + 1, depth - 1)
    ELSE FieldEnd(t, pos + 1, depth)

\* string.Formatter().parse as from_template uses it: the set of replacement
\* field names of the template, or ParseError for a single "{" or "}".
\* "{{" and "}}" are escapes of a literal brace.
RECURSIVE TemplateVariables(_, _)
TemplateVariables(t, pos) ==
    IF pos > Len(t) THEN {}
    ELSE IF t[pos] = "{"
         THEN IF pos < Len(t) /\ t[pos + 1] = "{" THEN TemplateVariables(t, pos + 2)
              ELSE LET close == FieldEnd(t, pos + 1, 1)
                   IN IF close = 0 THEN ParseError
                      ELSE LET rest == TemplateVariables(t, close + 1)
                           IN IF rest = ParseError THEN ParseError
                              ELSE {SubSeq(t, pos + 1, close - 1)} \cup rest
    ELSE IF t[pos] = "}"
         THEN IF pos < Len(t) /\ t[pos + 1] = "}" THEN TemplateVariables(t, pos + 2)
              ELSE ParseError
    ELSE TemplateVariables(t, pos + 1)

\* the keyword arguments of chain.run(sitrep=sitrep, query=cleaned_query)
RunInputs == {<<"s", "i", "t", "r", "e", "p">>, <<"q", "u", "e", "r", "y">>}

\* from_template succeeds on both templates
TemplatesParse(greeting) ==
    /\ TemplateVariables(SystemTemplate(greeting), 1) # ParseError
    /\ TemplateVariables(HumanTemplate, 1) # ParseError

\* chain.run checks that every input variable of the prompt was supplied
\* before it calls the model ("Missing some input keys")
InputsComplete(greeting) ==
    (TemplateVariables(SystemTemplate(greeting), 1)
        \cup TemplateVariables(HumanTemplate, 1)) \subseteq RunInputs

\* ------------------------------------------------------------------------
\* Inputs
\* ------------------------------------------------------------------------
\* k copies of the character c
RECURSIVE Repeat(_, _)
Repeat(c, k) == IF k = 0 THEN <<>> ELSE <<c>> \o Repeat(c, k - 1)

SenderSegments ==
    {<<"J", "a", "n", "e", " ", "D", "o", "e">>, <<"A", "l">>, <<"a", "{">>, <<"x", "}">>, <<"{", "x", "}">>, <<"{", "{", "J", "}", "}">>, <<"{", "s", "i", "t", "r", "e", "p", "}">>}

SenderSeparators == {<<",">>, <<",", " ">>}

SecondSegments == {<<"A", "c", "m", "e", " ", "I", "n", "c">>, <<>>, <<"A", ",", " ", "B">>}

Stamps ==
    {<<"0", "3", " ", "J", "a", "n", " ", "2", "0", "2", "4", " ", "1", "0", ":", "1", "5", " ", "U", "T", "C">>,
     <<"3", " ", "1", " ", "2", "4", " ", "7", " ", "z", "_", "1">>,
     <<"0", "3", " ", " ", "J", "a", "n", "\n", "2", "0", "2", "4", " ", "1", "0", ":", "1", "5", " ", "U", "T", "C">>,
     <<"J", "a", "n", " ", "0", "3", " ", "2", "0", "2", "4", " ", "1", "0", ":", "1", "5", " ", "U", "T", "C">>,
     <<"0", "3", " ", "J", "a", "n", " ", "2", "0", "2", "4", " ", "1", "0", ".", "1", "5", " ", "U", "T", "C">>,
     <<"0", "3", " ", "J", "a", "n", " ", "2", "0", "2", "4", " ", "1", "0", ":", "1", "5">>}

HeaderEnds == {<<"\n">>, <<" ", "\n", "\n">>, <<" ">>, <<"\n", " ", "\n", " ">>}

Headers ==
    {n \o sep \o seg \o <<",", " ">> \o st \o e :
        n \in SenderSegments, sep \in SenderSeparators, seg \in SecondSegments,
        st \in Stamps, e \in HeaderEnds}

Bodies ==
    {<<>>, <<"T", "h", "a", "n", "k", "s", "!">>, <<"o", "k">>, <<"o", "k", "a", "y">>, <<"t", "h", "a", "n", "k", "s", " ", "s", "o", " ", "m", "u", "c", "h">>,
     <<"G", "o", "t", " ", "i", "t", ",", " ", "a", "p", "p", "r", "e", "c", "i", "a", "t", "e", "d">>, <<"W", "h", "a", "t", " ", "s", "h", "o", "u", "l", "d", " ", "w", "e", " ", "d", "o", " ", "a", "b", "o", "u", "t", " ", "t", "h", "i", "s", " ", "a", "l", "e", "r", "t", "?">>,
     <<"T", "h", "a", "n", "k", "s", ",", " ", "t", "h", "a", "t", "'", "s", " ", "c", "l", "e", "a", "r", ".">>, <<"M", "a", "n", "y", " ", "t", "h", "a", "n", "k">>, <<"I", "s", " ", "t", "h", "i", "s", " ", "O", "K">>,
     <<"G", "o", "t", " ", "i", "t">>, <<"o", "k", "\n", "t", "h", "e", "n", " ", "w", "h", "a", "t", "?">>, <<"t", "z", "\n", "I", "s", " ", "i", "t", "?">>}

PlainHeaders == {<<>>, <<"J", "a", "n", "e", " ", "D", "o", "e", ",", " ", "A", "c", "m", "e", " ", "I", "n", "c", ",", " ", "0", "3", " ", "J", "a", "n", " ", "2", "0", "2", "4", " ", "1", "0", ":", "1", "5", " ", "U", "T", "C", "\n">>}

ProbeBodies == {<<"W", "h", "a", "t", " ", "n", "o", "w", "?">>, <<"o", "k">>}

Pads == 0 .. MaxPad

\* the customer queries of the model: every header shape with two bodies,
\* and every body without a header and behind a well-formed header
Queries ==
    {Repeat(" ", l) \o h \o b \o Repeat("\n", r) :
        l \in Pads, r \in Pads, h \in Headers, b \in ProbeBodies}
    \cup
    {Repeat(" ", l) \o h \o b \o Repeat("\n", r) :
        l \in Pads, r \in Pads, h \in PlainHeaders, b \in Bodies}

Sitreps == {<<"L", "o", "g", "i", "n", " ", "f", "r", "o", "m", " ", "n", "e", "w", " ", "I", "P", ".">>, <<"{", "a", "l", "e", "r", "t", "}">>}

\* what the completion service may answer to a prompt asking for greeting g
ModelTexts(g) ==
    {g \o <<"\n", "\n", "A", "l", "l", " ", "g", "o", "o", "d", ".">>,
     g \o <<" ", "A", "l", "l", " ", "g", "o", "o", "d", ".">>,
     g \o <<"\n", "\n", "A", "l", "l", " ", "g", "o", "o", "d", ".", "\n">>,
     g,
     <<"\n">> \o g \o <<"\n", "\n", "A", "l", "l", " ", "g", "o", "o", "d", ".">>,
     <<"H", "e", "y", " ", "B", "o", "b", ",", "\n", "\n", "A", "l", "l", " ", "g", "o", "o", "d", ".">>,
     <<"h", "e", "y", ",", "\n", "\n", "A", "l", "l", " ", "g", "o", "o", "d", ".">>,
     <<"A", "l", "l", " ", "g", "o", "o", "d", ".">>,
     <<" ", " ", "A", "l", "l", " ", "g", "o", "o", "d", ".", "\n">>,
     <<"H", "e", "y">>,
     <<" ", "\n">>,
     <<>>}

\* the exceptions chain.run raises when the completion call fails
ModelFailures == {"APITimeoutError", "APIConnectionError", "RateLimitError"}

\* ------------------------------------------------------------------------
\* State
\* ------------------------------------------------------------------------
VARIABLES
    pc,             \* position in generate_response
    sitrep,         \* argument sitrep
    query,          \* argument query
    name,           \* local name
    cleaned_query,  \* local cleaned_query
    greeting,       \* local greeting
    path,           \* "trivial" / "advisory" once the acknowledgment check ran
    requests,       \* completion requests issued to the model service
    completion,     \* what chain.run returned (None before)
    exception,      \* the exception raised inside the try block ("none" if none)
    finalized,      \* lines 235-239 ran
    response        \* result["response"] (None until the call returns)

vars == <<pc, sitrep, query, name, cleaned_query, greeting, path, requests,
          completion, exception, finalized, response>>

Init ==
    /\ pc = "process_query"
    /\ sitrep \in Sitreps
    /\ query \in Queries
    /\ name = None
    /\ cleaned_query = None
    /\ greeting = None
    /\ path = "none"
    /\ requests = <<>>
    /\ completion = None
    /\ exception = "none"
    /\ finalized = FALSE
    /\ response = None

\* name, cleaned_query = self.process_query(query); greeting = ...
ProcessQuery ==
    /\ pc = "process_query"
    /\ LET r == process_query(query)
       IN /\ name' = r.name
          /\ cleaned_query' = r.content
          /\ greeting' = Greeting(r.name)
    /\ pc' = "check_ack"
    /\ UNCHANGED <<sitrep, query, path, requests, completion, exception,
                   finalized, response>>

\* the acknowledgment check without the return: the reply is composed and
\* the call goes on to the prompt
CheckAcknowledgment_FallsThrough ==
    /\ pc = "check_ack"
    /\ IF IsAcknowledgment(cleaned_query)
       THEN /\ path' = "trivial"
            /\ response' = AckResponse(greeting)
       ELSE /\ path' = "advisory"
            /\ response' = response
    /\ pc' = "build_prompt"
    /\ UNCHANGED <<sitrep, query, name, cleaned_query, greeting, requests,
                   completion, exception, finalized>>

\* the acknowledgment check and its early return
CheckAcknowledgment ==
    /\ pc = "check_ack"
    /\ IF IsAcknowledgment(cleaned_query)
       THEN /\ path' = "trivial"
            /\ response' = AckResponse(greeting)
            /\ pc' = "done"
       ELSE /\ path' = "advisory"
            /\ response' = response
            /\ pc' = "build_prompt"
    /\ UNCHANGED <<sitrep, query, name, cleaned_query, greeting, requests,
                   completion, exception, finalized>>

\* ChatPromptTemplate.from_messages([...from_template(...), ...])
BuildPrompt ==
    /\ pc = "build_prompt"
    /\ IF TemplatesParse(greeting)
       THEN /\ pc' = "run_chain"
            /\ exception' = exception
       ELSE /\ pc' = "except"
            /\ exception' = "ValueError"
    /\ UNCHANGED <<sitrep, query, name, cleaned_query, greeting, path, requests,
                   completion, finalized, response>>

\* chain.run(sitrep=sitrep, query=cleaned_query): validate the inputs, then
\* send the one completion request
RunChain ==
    /\ pc = "run_chain"
    /\ IF InputsComplete(greeting)
       THEN /\ requests' = Append(requests, [sitrep |-> sitrep, query |-> cleaned_query])
            /\ pc' = "await_completion"
            /\ exception' = exception
       ELSE /\ requests' = requests
            /\ pc' = "except"
            /\ exception' = "ValueError"
    /\ UNCHANGED <<sitrep, query, name, cleaned_query, greeting, path,
                   completion, finalized, response>>

\* the model service answers with a text
CompletionReturns ==
    /\ pc = "await_completion"
    /\ \E text \in ModelTexts(greeting) : completion' = text
    /\ pc' = "ensure_greeting"
    /\ UNCHANGED <<sitrep, query, name, cleaned_query, greeting, path, requests,
                   exception, finalized, response>>

\* a failed completion call is sent again
CompletionFails_Retries ==
    /\ pc = "await_completion"
    /\ \E e \in ModelFailures : exception' = e
    /\ pc' = "run_chain"
    /\ UNCHANGED <<sitrep, query, name, cleaned_query, greeting, path, requests,
                   completion, finalized, response>>

\* the completion call fails: chain.run raises
CompletionFails ==
    /\ pc = "await_completion"
    /\ \E e \in ModelFailures : exception' = e
    /\ pc' = "except"
    /\ UNCHANGED <<sitrep, query, name, cleaned_query, greeting, path, requests,
                   completion, finalized, response>>

\* "Ensure response starts with greeting" and return
Finalize ==
    /\ pc = "ensure_greeting"
    /\ response' = EnsureGreeting(completion, greeting)
    /\ finalized' = TRUE
    /\ pc' = "done"
    /\ UNCHANGED <<sitrep, query, name, cleaned_query, greeting, path, requests,
                   completion, exception>>

\* the fallback behind the greeting
HandleException_KeepsGreeting ==
    /\ pc = "except"
    /\ response' = greeting \o <<"\n", "\n">> \o Fallback
    /\ pc' = "done"
    /\ UNCHANGED <<sitrep, query, name, cleaned_query, greeting, path, requests,
                   completion, exception, finalized>>

\* except Exception as e: log and return the fallback
HandleException ==
    /\ pc = "except"
    /\ response' = Fallback
    /\ pc' = "done"
    /\ UNCHANGED <<sitrep, query, name, cleaned_query, greeting, path, requests,
                   completion, exception, finalized>>

Next ==
    \/ ProcessQuery
    \/ CheckAcknowledgment
    \/ BuildPrompt
    \/ RunChain
    \/ CompletionReturns
    \/ CompletionFails
    \/ Finalize
    \/ HandleException

Spec == Init /\ [][Next]_vars

TypeOK ==
    /\ pc \in {"process_query", "check_ack", "build_prompt", "run_chain",
               "await_completion", "ensure_greeting", "except", "done"}
    /\ path \in {"none", "trivial", "advisory"}
    /\ exception \in {"none", "ValueError"} \cup ModelFailures
    /\ finalized \in BOOLEAN

\* ------------------------------------------------------------------------
\* Properties
\* ------------------------------------------------------------------------

\* C1: for every model text a successful completion returned and every
\* greeting derived from the query, the response produced by the
\* finalization step starts with exactly that greeting.
C1_FinalizedStartsWithGreeting ==
    finalized => StartsWith(response, greeting)

\* a named sender, and a model text that opens with a greeting of its own
C1_Witness ==
    /\ finalized
    /\ Truthy(name)
    /\ completion = <<"H", "e", "y", " ", "B", "o", "b", ",", "\n", "\n", "A", "l", "l", " ", "g", "o", "o", "d", ".">>

\* modelText without a leading greeting-shaped prefix: "Hey", characters other
\* than a comma, ",", optional whitespace  (^Hey[^,]*,\s*)
StripGreetingPrefix(text) ==
    IF ~StartsWith(text, <<"H", "e", "y">>) THEN text
    ELSE LET commas == {i \in 4 .. Len(text) : text[i] = ","}
         IN IF commas = {} THEN text
            ELSE LET c == CHOOSE i \in commas : \A j \in commas : i <= j
                 IN SubSeq(text, c + 1 + RunLength(text, c + 1, "space"), Len(text))

\* C2: finalize(modelText, greeting) equals trim(greeting + "\n\n" + remainder),
\* remainder being modelText with any leading greeting-shaped prefix stripped,
\* so that a foreign "Hey X," prefix does not appear after the greeting.
C2_FinalizeStripsGreetingPrefix ==
    finalized =>
        response = Strip(greeting \o <<"\n", "\n">> \o StripGreetingPrefix(completion))

\* the Trivial-Reply Detector as specified: prefix match after trim and lower-case
PrefixTrivial(body) ==
    LET b == Lower(Strip(body))
    IN \/ b = <<>>
       \/ \E tok \in {<<"t", "h", "a", "n", "k">>, <<"o", "k">>, <<"g", "o", "t", " ", "i", "t">>} : StartsWith(b, tok)

\* C3: the cleaned query body is classified as trivial exactly when, trimmed
\* and lower-cased, it is empty or starts with "thank", "ok" or "got it".
C3_TrivialIffPrefixMatch ==
    path # "none" => ((path = "trivial") <=> PrefixTrivial(cleaned_query))

\* C4: whenever the acknowledgment check reports the body as trivial, the
\* call returns at once with Greeting + "\n\n" + the canned acknowledgment;
\* no completion request is issued and the finalization step does not run.
C4_TrivialReturnsImmediately ==
    path = "trivial" =>
        /\ pc = "done"
        /\ response = Greeting(name) \o <<"\n", "\n", "M", "e", "s", "s", "a", "g", "e", " ", "r", "e", "c", "e", "i", "v", "e", "d", ".", " ", "T", "h", "a", "n", "k", " ", "y", "o", "u", "!", " ", "G", "r", "a", "d", "i", "e", "n", "t", " ", "C", "y", "b", "e", "r", " ", "T", "e", "a", "m", "!">>
        /\ requests = <<>>
        /\ completion = None
        /\ ~finalized

\* the acknowledgment behind a header naming the sender
C4_Witness ==
    /\ path = "trivial"
    /\ name = <<"J", "a", "n", "e", " ", "D", "o", "e">>
    /\ cleaned_query = <<"o", "k">>
    /\ response = <<"H", "e", "y", " ", "J", "a", "n", "e", " ", "D", "o", "e", ",", "\n", "\n", "M", "e", "s", "s", "a", "g", "e", " ", "r", "e", "c", "e", "i", "v", "e", "d", ".", " ", "T", "h", "a", "n", "k", " ", "y", "o", "u", "!", " ", "G", "r", "a", "d", "i", "e", "n", "t", " ", "C", "y", "b", "e", "r", " ", "T", "e", "a", "m", "!">>

RECURSIVE Words(_, _, _)
Words(s, pos, cur) ==
    IF pos > Len(s) THEN IF cur = <<>> THEN <<>> ELSE <<cur>>
    ELSE IF IsSpace(s[pos])
         THEN IF cur = <<>> THEN Words(s, pos + 1, <<>>)
              ELSE <<cur>> \o Words(s, pos + 1, <<>>)
         ELSE Words(s, pos + 1, Append(cur, s[pos]))

AllDigits(w) == \A i \in DOMAIN w : IsDigit(w[i])
AllWord(w) == \A i \in DOMAIN w : IsWord(w[i])
AllDigitsOrColons(w) == \A i \in DOMAIN w : IsDigit(w[i]) \/ w[i] = ":"

\* index of the first comma of t after index from, 0 if there is none
CommaAfter(t, from) ==
    LET commas == {i \in from + 1 .. Len(t) : t[i] = ","}
    IN IF commas = {} THEN 0 ELSE CHOOSE i \in commas : \A j \in commas : i <= j

\* the newlines of t that end a header: a name segment without comma, a comma,
\* a second segment, a comma, then exactly the words day, month, year, time
\* and timezone, and a non-empty body behind the newline
HeaderNewlines(t) ==
    LET c1 == CommaAfter(t, 0)
        c2 == IF c1 = 0 THEN 0 ELSE CommaAfter(t, c1)
    IN {n \in 1 .. Len(t) - 1 :
          /\ t[n] = "\n"
          /\ c1 >= 2
          /\ c2 >= c1 + 2
          /\ n > c2
          /\ LET w == Words(SubSeq(t, c2 + 1, n), 1, <<>>)
             IN /\ Len(w) = 5
                /\ AllDigits(w[1])
                /\ AllWord(w[2])
                /\ AllDigits(w[3])
                /\ AllDigitsOrColons(w[4])
                /\ AllWord(w[5])}

\* C6: normalization is total and agrees with the reference on every raw
\* query: on a header match the sender name is the trimmed text before the
\* first comma and the body is the trimmed text after the header's newline;
\* otherwise the sender name is None and the body is the trimmed raw query.
C6_NormalizeAgreesWithReference ==
    pc # "process_query" =>
        LET t == Strip(query)
        IN /\ pc = "check_ack" => exception = "none"
           /\ IF HeaderNewlines(t) # {}
              THEN /\ name = Strip(SubSeq(t, 1, CommaAfter(t, 0) - 1))
                   /\ \A n \in HeaderNewlines(t) :
                        cleaned_query = Strip(SubSeq(t, n + 1, Len(t)))
              ELSE /\ name = None
                   /\ cleaned_query = t

\* a header spread over two lines, blank lines before the body
C6_Witness ==
    /\ pc = "check_ack"
    /\ query = <<" ", "J", "a", "n", "e", " ", "D", "o", "e", ",", "A", "c", "m", "e", " ", "I", "n", "c", ",", " ", "0", "3", " ", " ", "J", "a", "n", "\n", "2", "0", "2", "4", " ", "1", "0", ":", "1", "5", " ", "U", "T", "C", "\n", " ", "\n", " ", "W", "h", "a", "t", " ", "n", "o", "w", "?", "\n">>
    /\ name = <<"J", "a", "n", "e", " ", "D", "o", "e">>
    /\ cleaned_query = <<"W", "h", "a", "t", " ", "n", "o", "w", "?">>

C8_FinalizeIdempotent ==
    finalized => EnsureGreeting(response, greeting) = response

\* the first application did prepend the greeting
C8_Witness ==
    /\ finalized
    /\ completion = <<" ", " ", "A", "l", "l", " ", "g", "o", "o", "d", ".", "\n">>
    /\ response = <<"H", "e", "y", " ", "A", "l", ",", "\n", "\n", " ", " ", "A", "l", "l", " ", "g", "o", "o", "d", ".">>

\* C9 as stated: every response, on any path, is non-empty and begins with
\* the greeting derived from the request's query.
C9_EveryResponseStartsWithGreeting ==
    pc = "done" => response # <<>> /\ StartsWith(response, Greeting(name))

\* C9 amended: every response is non-empty; it begins with the greeting on
\* the trivial path and whenever the completion returned a text, and is
\* exactly the fallback text otherwise.
C9_ResponseGreetedOrFallback ==
    pc = "done" =>
        /\ response # <<>>
        /\ response # None
        /\ IF path = "trivial" \/ completion # None
           THEN StartsWith(response, Greeting(name))
           ELSE response = <<"E", "r", "r", "o", "r", " ", "g", "e", "n", "e", "r", "a", "t", "i", "n", "g", " ", "r", "e", "s", "p", "o", "n", "s", "e", ".", " ", "P", "l", "e", "a", "s", "e", " ", "t", "r", "y", " ", "a", "g", "a", "i", "n", ".">>

\* an empty model text still gives a non-empty, greeted response
C9_Witness ==
    /\ pc = "done"
    /\ completion = <<>>
    /\ response = <<"H", "e", "y", ",">>

\* C10: the fallback is returned only when the completion request was issued
\* and failed: on the non-trivial path no step before the request fails, the
\* request is issued, and a returned text gives the finalized model text.
C10_FallbackOnlyAfterModelFailure ==
    pc = "done" =>
        /\ response = <<"E", "r", "r", "o", "r", " ", "g", "e", "n", "e", "r", "a", "t", "i", "n", "g", " ", "r", "e", "s", "p", "o", "n", "s", "e", ".", " ", "P", "l", "e", "a", "s", "e", " ", "t", "r", "y", " ", "a", "g", "a", "i", "n", ".">>
              => Len(requests) = 1 /\ exception \in ModelFailures
        /\ path = "advisory" => Len(requests) = 1
        /\ completion # None => response = EnsureGreeting(completion, greeting)
====
